---- MODULE Spec2Model ----
(***************************************************************************)
(* Model of scripts/clip.py: the cropping cascade resize_for_tiktok        *)
(* (ClipsAI resize -> scene+saliency+face crop -> heuristic positional     *)
(* crop -> rule-of-thirds crop), with the stage 2 heat map aggregation and *)
(* sliding-window crop selection computed as the code computes them.       *)
(*                                                                         *)
(* Heat values are exact fixed-point numbers: a heat map is a pair         *)
(* [num, den] standing for the array num / den.  One unit of num is        *)
(* 1 / (10 * 255), so that face_weight = 0.6 and the min-max normalised    *)
(* saliency (range [0, 0.4]) of a uint8 map are integers.                  *)
(***************************************************************************)
EXTENDS Integers, Sequences, FiniteSets, TLC

\* ------------------------------------------------------------------ bounds
MaxSegments == 2        \* longest segment list the resize collaborator returns
MaxDetected == 22       \* largest number of scenes the detector reports
MaxSceneLen == 2        \* longest detected scene, in frames
MaxWidth == 5           \* widest frame of the selector specification
MaxHeight == 5          \* tallest frame of the selector specification
MaxKeyFrames == 2       \* most key frames of the selector specification

\* ------------------------------------------------------- program constants
MaxScenes == 20                     \* clip.py:452, len(scene_list) > 20
face_weight == 6 * 255              \* clip.py:504, 0.6 in heat units
salience_weight == 4 * 255          \* clip.py:505, 0.4 in heat units
HeatUnit == 10 * 255                \* heat units per 1.0
Uint8Max == 255                     \* clip.py:529, (saliency_map * 255).astype("uint8")

Max(a, b) == IF a >= b THEN a ELSE b
Min(a, b) == IF a <= b THEN a ELSE b

VARIABLES
    RESIZE_AVAILABLE,        \* clip.py:33/36, module flag
    SCENE_DETECT_AVAILABLE,  \* clip.py:45/48, module flag
    pc,                      \* position inside resize_for_tiktok
    ret,                     \* "none" while running, then "True" / "False"
    output_file,             \* [state, by]: file at the output path and the stage that wrote it
    dirs,                    \* temporary directories that exist on disk
    cap_open,                \* cv2.VideoCapture handle opened and not released
    vm_started,              \* VideoManager started and not released
    attempted,               \* stages attempted so far, in order (history)
    outcome,                 \* per stage: "none", "ok", "failed", "skipped" (history)
    crops,                   \* stage 1: segments returned by clipsai_resize
    segment_files,           \* stage 1: indexes of the segments to concatenate
    video,                   \* stage 2: what cv2 / scenedetect see in input_file
    detected,                \* stage 2: scene list as returned by get_scene_list
    scene_list,              \* stage 2: effective scene list
    key_frame_samples,       \* stage 2: the saved key frames [frame, faces, sal]
    avg_heat_map,            \* stage 2: aggregated heat map [num, den]
    crop,                    \* stage 2: [x, y, w, h] chosen by the selector, or NoCrop
    test_frames,             \* stage 3: positions whose test frame was extracted
    best_pos,                \* stage 3: the crop position handed to ffmpeg, or NoPos
    s3_exit,                 \* how stage 3 ended (history)
    clipsai_calls,           \* number of calls of clipsai_resize (history)
    written,                 \* <<directory, call>>: files of that call are in it
    args,                    \* main: [resize, token] from the command line
    clips,                   \* main: the clips find_clips returned, by duration class
    clip_i,                  \* main: index of the clip the loop is at
    main_pc,                 \* main: position in main
    successful_clips,        \* main: counter
    skipped_clips,           \* main: counter
    log,                     \* main: what happened to each clip, in order (history)
    summary,                 \* main: the printed summary, or NoSummary
    run,                     \* which of two runs on the same input is under way
    sel,                     \* crop selections of the current run (history)
    first_sel,               \* crop selections of the first of two runs (history)
    slide                    \* the selector's loop, taken one candidate at a time

CascadeVars ==
    <<RESIZE_AVAILABLE, SCENE_DETECT_AVAILABLE, pc, ret, output_file, dirs,
      cap_open, vm_started, attempted, outcome, crops, segment_files, video,
      detected, scene_list, key_frame_samples, avg_heat_map, crop, test_frames,
      best_pos, s3_exit, clipsai_calls, written>>

MainVars ==
    <<args, clips, clip_i, main_pc, successful_clips, skipped_clips, log, summary>>

TwiceVars == <<run, sel, first_sel>>

vars == <<CascadeVars, MainVars, TwiceVars, slide>>
\* ---------------------------------------------------------------- stage 2
\* A frame's content as stage 2 sees it: the rectangles detectMultiScale
\* returns (<<x, y, w, h>>) and what computeSaliency returns: "fail" (success
\* is False) or the name of a uint8 saliency map.
NoCrop == [x |-> -1, y |-> -1, w |-> -1, h |-> -1]

Cells(width, height) == (0 .. height - 1) \X (0 .. width - 1)

\* The uint8 saliency maps of the catalogue, by name; cell = <<row, column>>.
SaliencyMap(name, width, cell) ==
    CASE name = "flat"  -> 128
      [] name = "left"  -> IF cell[2] = 0 THEN Uint8Max ELSE IF cell[2] = 1 THEN 51 ELSE 0
      [] name = "right" -> IF cell[2] = width - 1 THEN Uint8Max ELSE 0
      [] OTHER          -> 0

RECURSIVE SetMax(_)
SetMax(S) == IF S = {} THEN 0
             ELSE LET v == CHOOSE v \in S : TRUE IN Max(v, SetMax(S \ {v}))
RECURSIVE SetMin(_)
SetMin(S) == IF S = {} THEN 0
             ELSE LET v == CHOOSE v \in S : TRUE
                  IN IF S = {v} THEN v ELSE Min(v, SetMin(S \ {v}))

\* cv2.rectangle(frame_heat_map, (x, y), (x+w, y+h), face_weight, -1): a filled
\* rectangle, both corners included, clipped to the image.
Painted(rect, cell) ==
    /\ rect[1] <= cell[2] /\ cell[2] <= rect[1] + rect[3]
    /\ rect[2] <= cell[1] /\ cell[1] <= rect[2] + rect[4]

FacePaint(faces, cell) ==
    IF \E rect \in faces : Painted(rect, cell) THEN face_weight ELSE 0

\* cv2.normalize(saliency_map, None, 0, salience_weight, NORM_MINMAX): the map
\* scaled from [min, max] onto [0, salience_weight]; a constant map gives 0.
NormalizedSaliency(sal, width, height) ==
    LET vals == {SaliencyMap(sal, width, c) : c \in Cells(width, height)}
        mn   == SetMin(vals)
        mx   == SetMax(vals)
    IN [cell \in Cells(width, height) |->
           IF mx = mn THEN 0
           ELSE ((SaliencyMap(sal, width, cell) - mn) * salience_weight) \div (mx - mn)]

\* SaliencyPart adding salience_weight everywhere when computeSaliency fails.
SaliencyPartFull(sal, width, height) ==
    IF sal = "fail" THEN [cell \in Cells(width, height) |-> salience_weight]
    ELSE NormalizedSaliency(sal, width, height)

\* What one key frame adds to its frame_heat_map beyond the faces: nothing
\* when computeSaliency reports failure (clip.py:526-531).
SaliencyPart(sal, width, height) ==
    IF sal = "fail" THEN [cell \in Cells(width, height) |-> 0]
    ELSE NormalizedSaliency(sal, width, height)

\* frame_heat_map of one key frame (clip.py:515-531).
FrameHeatMap(frame, width, height) ==
    LET salient == SaliencyPart(frame.sal, width, height)
    IN [cell \in Cells(width, height) |-> FacePaint(frame.faces, cell) + salient[cell]]

RECURSIVE SumTo(_, _)
SumTo(f, n) == IF n <= 0 THEN 0 ELSE f[n - 1] + SumTo(f, n - 1)

\* The frame_heat_map of every key frame, in the order of the loop
\* (clip.py:507-531).
RECURSIVE FrameHeatMaps(_, _, _)
FrameHeatMaps(frames, width, height) ==
    IF frames = <<>> THEN <<>>
    ELSE <<FrameHeatMap(Head(frames), width, height)>>
         \o FrameHeatMaps(Tail(frames), width, height)

\* AggregateHeatMap as a running average, avg = (avg + frame_heat_map) / 2 in
\* every iteration: frame i of n weighs 2^(i-1) / 2^n.
RECURSIVE Pow2(_)
Pow2(n) == IF n <= 0 THEN 1 ELSE 2 * Pow2(n - 1)

AggregateRunningAverage(frames, width, height) ==
    LET per == FrameHeatMaps(frames, width, height)
    IN [num |-> [cell \in Cells(width, height) |->
                    SumTo([i \in 0 .. Len(frames) - 1 |-> per[i + 1][cell] * Pow2(i)],
                          Len(frames))],
        den |-> HeatUnit * Pow2(Len(frames))]

\* AggregateHeatMap without the division by the number of key frames.
AggregateUndivided(frames, width, height) ==
    LET per == FrameHeatMaps(frames, width, height)
    IN [num |-> [cell \in Cells(width, height) |->
                    SumTo([i \in 0 .. Len(frames) - 1 |-> per[i + 1][cell]], Len(frames))],
        den |-> HeatUnit]

\* avg_heat_map after the loop over the key frames and the division by their
\* number (clip.py:503, 534-538); no division when there is no key frame.
AggregateHeatMap(frames, width, height) ==
    LET per == FrameHeatMaps(frames, width, height)
    IN [num |-> [cell \in Cells(width, height) |->
                    SumTo([i \in 0 .. Len(frames) - 1 |-> per[i + 1][cell]], Len(frames))],
        den |-> IF Len(frames) > 0 THEN HeatUnit * Len(frames) ELSE HeatUnit]

\* TargetWidth without the test for a frame narrower than the target.
TargetWidthUnclamped(width, height) == (height * 9) \div 16

\* target_width = int(height * (9/16)); a frame narrower than that keeps its
\* width and gets target_height = int(width * (16/9)) (clip.py:542-549).
TargetWidth(width, height) ==
    IF (height * 9) \div 16 > width THEN width ELSE (height * 9) \div 16

TargetHeight(width, height) ==
    IF (height * 9) \div 16 > width THEN (width * 16) \div 9 ELSE height

\* SlideStep with a step that gives at most 11 positions.
SlideStepCeiling(width, target_width) == Max(1, (width - target_width + 9) \div 10)

\* range(0, width - target_width + 1, max(1, (width - target_width) // 10))
SlideStep(width, target_width) == Max(1, (width - target_width) \div 10)

Candidates(width, target_width) ==
    LET step == SlideStep(width, target_width)
    IN [k \in 1 .. ((width - target_width) \div step) + 1 |-> (k - 1) * step]

\* np.sum(avg_heat_map[:target_height, x:x+target_width]), as a numerator over
\* avg_heat_map.den.
\* A slice that runs past the array is clipped by numpy.
HeatAt(hm, cell) == IF cell \in DOMAIN hm.num THEN hm.num[cell] ELSE 0

CropScore(hm, width, height, x) ==
    LET tw == TargetWidth(width, height)
        th == TargetHeight(width, height)
    IN SumTo([k \in 0 .. tw - 1 |->
                 SumTo([r \in 0 .. th - 1 |-> HeatAt(hm, <<r, x + k>>)], th)], tw)

\* Better with >= for >: the last maximum wins.
BetterOrEqual(crop_score, best_score) == crop_score >= best_score

\* if crop_score > best_score: best_score, best_x = crop_score, x
Better(crop_score, best_score) == crop_score > best_score

\* The sliding loop from candidate k on (clip.py:556-562).
RECURSIVE Slide(_, _, _, _, _, _)
Slide(hm, width, height, k, best_score, best_x) ==
    LET xs == Candidates(width, TargetWidth(width, height))
    IN IF k > Len(xs) THEN best_x
       ELSE LET crop_score == CropScore(hm, width, height, xs[k])
            IN IF Better(crop_score, best_score)
               THEN Slide(hm, width, height, k + 1, crop_score, xs[k])
               ELSE Slide(hm, width, height, k + 1, best_score, best_x)

\* best_score = -1, best_x = 0, then the loop; the window handed to ffmpeg is
\* crop=target_width:target_height:best_x:0 (clip.py:552-553, 587).
SelectCrop(hm, width, height) ==
    [x |-> Slide(hm, width, height, 1, -hm.den, 0),
     y |-> 0,
     w |-> TargetWidth(width, height),
     h |-> TargetHeight(width, height)]

\* EffectiveScenes with >= 20 for > 20.
EffectiveScenesFrom20(scenes, total_frames) ==
    IF Len(scenes) = 0 \/ Len(scenes) >= MaxScenes
    THEN << <<0, total_frames>> >>
    ELSE scenes

\* if len(scene_list) == 0 or len(scene_list) > 20: scene_list = [(0, total_frames)]
EffectiveScenes(scenes, total_frames) ==
    IF Len(scenes) = 0 \/ Len(scenes) > MaxScenes
    THEN << <<0, total_frames>> >>
    ELSE scenes

\* mid_frame = int((scene_start + scene_end) // 2)
MidFrame(scene) == (scene[1] + scene[2]) \div 2
\* ------------------------------------------------------------- the cascade
\* What one external ffmpeg run that writes output_file can do: exit 0 with
\* the complete file; exit non-zero before opening the output; exit non-zero
\* after it started writing (the output path is opened with -y and written in
\* place); or fail to start, so that Popen raises.
TranscodeResults == {"ok", "fail_clean", "fail_partial", "raise"}

\* process.returncode == 0 (clip.py:386, 617, 785, 823)
Succeeded(result) == result = "ok"

\* The file at the output path after stage `stage` ran ffmpeg ... -y output_file.
Written(old, stage, result) ==
    CASE result = "ok"           -> [state |-> "complete", by |-> stage]
      [] result = "fail_partial" -> [state |-> "partial", by |-> stage]
      [] OTHER                   -> old

\* Fallthrough with method 2 left out of the chain.
FallthroughSkipsStage3(stage) ==
    CASE stage = 1 -> "stage2"
      [] stage = 2 -> "stage4"
      [] stage = 3 -> "stage4"
      [] OTHER     -> "done"

\* Where control goes when stage `stage` ends without returning True: the
\* except blocks and fall-through ends of the four methods (clip.py:406-413,
\* 620-632, 788-799, 826-836).
Fallthrough(stage) ==
    CASE stage = 1 -> "stage2"
      [] stage = 2 -> "stage3"
      [] stage = 3 -> "stage4"
      [] OTHER     -> "done"

\* return False after the last method (clip.py:834-836)
RetAfter(stage) == IF stage = 4 THEN "False" ELSE "none"

\* The segments clipsai_resize may return: per segment, whether its fields
\* pass the checks of clip.py:287-304 and how its ffmpeg run ends.
SegmentKinds == {"no_time", "bad_crop", "ok", "ffmpeg_fail", "raise"}

RECURSIVE SeqsUpTo(_, _)
SeqsUpTo(S, n) ==
    IF n = 0 THEN {<<>>}
    ELSE LET shorter == SeqsUpTo(S, n - 1)
         IN shorter \cup {Append(q, e) : q \in {t \in shorter : Len(t) = n - 1}, e \in S}

\* crops: None, an object without a segments attribute, or an object with a
\* (possibly empty) segment list.
NoCrops == [kind |-> "None", segments |-> <<>>]

CropsResults ==
    {NoCrops, [kind |-> "no_segments_attr", segments |-> <<>>]}
    \cup [kind : {"segments"}, segments : SeqsUpTo(SegmentKinds, MaxSegments)]

\* HasSegments without the test that the list is not empty.
HasSegmentsAttr(c) == c.kind = "segments"

\* crops and hasattr(crops, 'segments') and crops.segments (clip.py:273)
HasSegments(c) == c.kind = "segments" /\ c.segments # <<>>

\* SurvivingFrom leaving the loop at the first segment that is not appended.
RECURSIVE SurvivingUntilInvalid(_, _)
SurvivingUntilInvalid(segs, i) ==
    IF i > Len(segs) \/ segs[i] # "ok" THEN <<>>
    ELSE <<i>> \o SurvivingUntilInvalid(segs, i + 1)

\* The loop over crops.segments (clip.py:282-354): the indexes appended to
\* segment_files, in loop order.
RECURSIVE SurvivingFrom(_, _)
SurvivingFrom(segs, i) ==
    IF i > Len(segs) THEN <<>>
    ELSE IF segs[i] = "ok" THEN <<i>> \o SurvivingFrom(segs, i + 1)
         ELSE SurvivingFrom(segs, i + 1)

\* ---- the input file, as cv2 and scenedetect see it
FrameSizes == {<<5, 4>>, <<2, 8>>}
TotalFrames == MaxDetected * MaxSceneLen
Videos ==
    {[width |-> size[1], height |-> size[2], total_frames |-> TotalFrames,
      content |-> c, bad |-> b] :
        size \in FrameSizes, c \in {"blank", "face_left", "mixed"},
        b \in {"none", "all", "first"}}

\* ret of cap.read() after seeking to frame f (clip.py:484-485)
ReadOk(v, f) ==
    CASE v.bad = "none" -> TRUE
      [] v.bad = "all"  -> FALSE
      [] OTHER          -> f # 0

\* What the detectors find in frame f of the video.
FrameAt(v, f) ==
    CASE v.content = "blank"     -> [faces |-> {}, sal |-> "flat"]
      [] v.content = "face_left" -> [faces |-> {<<0, 0, 1, 1>>}, sal |-> "fail"]
      [] OTHER -> IF f % 2 = 0
                  THEN [faces |-> {<<v.width - 2, 0, 1, 1>>}, sal |-> "right"]
                  ELSE [faces |-> {}, sal |-> "left"]

\* n detected scenes of len frames each, as get_scene_list returns them
Scenes(n, len) == [i \in 1 .. n |-> <<(i - 1) * len, i * len>>]

\* The jpg saved for frame f: its index and what the detectors find in it.
SavedFrame(v, f) ==
    [frame |-> f, faces |-> FrameAt(v, f).faces, sal |-> FrameAt(v, f).sal]

\* SampleFrom giving up at the first frame that cannot be read.
RECURSIVE SampleUntilBad(_, _, _)
SampleUntilBad(v, scenes, i) ==
    IF i > Len(scenes) THEN <<>>
    ELSE IF ReadOk(v, MidFrame(scenes[i]))
         THEN <<SavedFrame(v, MidFrame(scenes[i]))>> \o SampleUntilBad(v, scenes, i + 1)
         ELSE <<>>

\* The key frames of the sampling loop (clip.py:457-491): the mid frames whose
\* read succeeded, in scene order.
RECURSIVE SampleFrom(_, _, _)
SampleFrom(v, scenes, i) ==
    IF i > Len(scenes) THEN <<>>
    ELSE IF ReadOk(v, MidFrame(scenes[i]))
         THEN <<SavedFrame(v, MidFrame(scenes[i]))>> \o SampleFrom(v, scenes, i + 1)
         ELSE SampleFrom(v, scenes, i + 1)

EmptyHeatMap == [num |-> <<>>, den |-> 0]

\* ---------------------------------------------------------------- stage 3
\* Crop positions of method 2 are kept exactly, in units of 1 / PosUnit pixel:
\* target_width = height * (9/16) and the factor 0.618 need sixteenths and
\* thousandths.
PosUnit == 16 * 1000

NoPos == [desc |-> "none", x |-> -1, y |-> -1, width |-> -1, height |-> -1]

PositionNames == {"center", "golden_left", "golden_right", "left_align", "right_align"}

\* crop_positions (clip.py:681-727) for a probed width x height.
CropPositions(width, height) ==
    LET target_height == height * PosUnit
        target_width  == height * 9 * 1000            \* height * (9/16)
        slack         == width * PosUnit - target_width \* width - target_width
        left_golden   == Max(0, (slack * 618) \div 1000)
        right_golden  == Max(0, (slack * 382) \div 1000)
        Pos(d, x) == [desc |-> d, x |-> x, y |-> 0,
                      width |-> target_width, height |-> target_height]
    IN << Pos("center", Max(0, slack \div 2)),
          Pos("golden_left", left_golden),
          Pos("golden_right", right_golden),
          Pos("left_align", 0),
          Pos("right_align", Max(0, slack)) >>

\* SelectPosition always taking the first entry, the center crop.
SelectCenter(positions, extracted) == positions[1]

\* SelectPosition preferring golden_left only when its test frame exists.
SelectByTestFrame(positions, extracted) ==
    IF "golden_left" \in extracted THEN positions[2] ELSE positions[1]

\* best_pos = next((pos for _, pos in test_frames if pos['desc'] ==
\* 'golden_left'), crop_positions[0]) (clip.py:748); test_frames lists every
\* position, whether or not its extraction produced a file.
SelectPosition(positions, extracted) ==
    IF \E i \in DOMAIN positions : positions[i].desc = "golden_left"
    THEN positions[CHOOSE i \in DOMAIN positions :
                     /\ positions[i].desc = "golden_left"
                     /\ \A j \in 1 .. i - 1 : positions[j].desc # "golden_left"]
    ELSE positions[1]

\* ------------------------------------------------------------ initial state
NoSummary == [found |-> -1, successful |-> -1, skipped |-> -1]
NoSel == [scenes |-> <<>>, s2 |-> NoCrop, s3 |-> NoPos]

\* resize_for_tiktok has not been entered.
FreshCascade ==
    /\ ret = "none"
    /\ output_file = [state |-> "absent", by |-> 0]
    /\ dirs = {}
    /\ cap_open = FALSE
    /\ vm_started = FALSE
    /\ attempted = <<>>
    /\ outcome = [k \in 1 .. 4 |-> "none"]
    /\ crops = NoCrops
    /\ segment_files = <<>>
    /\ detected = <<>>
    /\ scene_list = <<>>
    /\ key_frame_samples = <<>>
    /\ avg_heat_map = EmptyHeatMap
    /\ crop = NoCrop
    /\ test_frames = {}
    /\ best_pos = NoPos
    /\ s3_exit = "none"
    /\ clipsai_calls = 0
    /\ written = {}

\* main is not running.
NoMain ==
    /\ args = [resize |-> TRUE, token |-> TRUE]
    /\ clips = <<>>
    /\ clip_i = 0
    /\ main_pc = "none"
    /\ successful_clips = 0
    /\ skipped_clips = 0
    /\ log = <<>>
    /\ summary = NoSummary

NoSlide == [k |-> 0, best_score |-> 0, best_x |-> 0, evaluated |-> <<>>]

\* No second run on the same input, and the selector not taken step by step.
NoTwice ==
    /\ run = 0
    /\ sel = NoSel
    /\ first_sel = NoSel
    /\ slide = NoSlide

Init ==
    /\ RESIZE_AVAILABLE \in BOOLEAN
    /\ SCENE_DETECT_AVAILABLE \in BOOLEAN
    /\ video \in Videos
    /\ pc = "call"
    /\ FreshCascade
    /\ NoMain
    /\ NoTwice

Stage1Locals == <<crops, segment_files>>
Stage2Locals == <<detected, scene_list, key_frame_samples, avg_heat_map, crop>>
Stage3Locals == <<test_frames, best_pos>>
Environment == <<RESIZE_AVAILABLE, SCENE_DETECT_AVAILABLE, video>>

\* The locals of stage 2 are dead once the stage is left.
ForgetStage2 ==
    /\ detected' = <<>>
    /\ scene_list' = <<>>
    /\ key_frame_samples' = <<>>
    /\ avg_heat_map' = EmptyHeatMap
    /\ crop' = NoCrop

ForgetStage1 ==
    /\ crops' = NoCrops
    /\ segment_files' = <<>>

ForgetStage3 ==
    /\ test_frames' = {}
    /\ best_pos' = NoPos

\* FailStage with the failure of a stage reaching the outer except: return
\* False at once.
FailStageReturns(stage) ==
    /\ outcome' = [outcome EXCEPT ![stage] = "failed"]
    /\ pc' = "done"
    /\ ret' = "False"

\* Stage `stage` ends without success: control falls through.
FailStage(stage) ==
    /\ outcome' = [outcome EXCEPT ![stage] = "failed"]
    /\ pc' = Fallthrough(stage)
    /\ ret' = RetAfter(stage)

\* ReturnTrue with the return statement missing: the success is recorded and
\* control falls through.
ReturnTrueFallsThrough(stage) ==
    /\ outcome' = [outcome EXCEPT ![stage] = "ok"]
    /\ pc' = Fallthrough(stage)
    /\ ret' = IF stage = 4 THEN "True" ELSE "none"

\* Stage `stage` ends with return True.
ReturnTrue(stage) ==
    /\ outcome' = [outcome EXCEPT ![stage] = "ok"]
    /\ pc' = "done"
    /\ ret' = "True"

\* After the final ffmpeg run of a stage: return True on exit code 0, else
\* fall through (clip.py:386-391, 617-621, 785-789, 823-827).
AfterTranscode(stage, result) ==
    IF Succeeded(result) THEN ReturnTrue(stage) ELSE FailStage(stage)

\* resize_for_tiktok is entered (clip.py:199-205): no collaborator, return
\* False at once; else makedirs of the output directory, which may raise into
\* the outer except (clip.py:838-842).
Call ==
    /\ pc = "call"
    /\ \/ /\ ~RESIZE_AVAILABLE
          /\ pc' = "done" /\ ret' = "False"
       \/ /\ RESIZE_AVAILABLE
          /\ \/ pc' = "stage1" /\ ret' = "none"
             \/ pc' = "done" /\ ret' = "False"
    /\ UNCHANGED <<Environment, output_file, dirs, cap_open, vm_started, attempted,
                   outcome, Stage1Locals, Stage2Locals, Stage3Locals, s3_exit,
                   clipsai_calls, written>>

\* The call that is running: the clip of main's loop, or the first or second
\* call on one video.  Every call of main's loop has its output in the same
\* vertical_dir (clip.py:911, 942), so dirname(output_file) is the same for all.
Invocation == clip_i + run

\* The calls whose files lie in a directory of dirname(output_file).
Writers(dir) == {w[2] : w \in {v \in written : v[1] = dir}}

\* The call that is running writes files into dir.
WriteInto(dir) == written \cup {<<dir, Invocation>>}

\* shutil.rmtree(dir).
RemoveTree(dir) == {v \in written : v[1] # dir}

\* Method 1 up to the validation of crops (clip.py:208-276, 394-411): ffprobe,
\* clipsai_resize, then temp_resize is created when there are segments.
S1Resize ==
    /\ pc = "stage1"
    /\ attempted' = Append(attempted, 1)
    /\ \/ /\ FailStage(1)                     \* the ffprobe Popen raises
          /\ UNCHANGED <<dirs, Stage1Locals, clipsai_calls>>
       \/ /\ clipsai_calls' = clipsai_calls + 1
          /\ FailStage(1)                     \* clipsai_resize raises
          /\ UNCHANGED <<dirs, Stage1Locals>>
       \/ /\ clipsai_calls' = clipsai_calls + 1
          /\ \E c \in CropsResults :
               IF HasSegments(c)
               THEN /\ crops' = c
                    /\ dirs' = dirs \cup {"temp_resize"}
                    /\ pc' = "s1_segments"
                    /\ UNCHANGED <<segment_files, outcome, ret>>
               ELSE /\ FailStage(1)           \* raise ValueError(error_msg)
                    /\ UNCHANGED <<dirs, Stage1Locals>>
    /\ UNCHANGED <<Environment, output_file, cap_open, vm_started, Stage2Locals,
                   Stage3Locals, s3_exit, written>>

\* The loop over the segments (clip.py:278-357).
S1Segments ==
    /\ pc = "s1_segments"
    /\ LET files == SurvivingFrom(crops.segments, 1)
       IN IF files # <<>>
          THEN /\ segment_files' = files
               /\ pc' = "s1_concat"
               /\ written' = WriteInto("temp_resize")   \* segment_NNN.mp4
               /\ UNCHANGED <<crops, outcome, ret>>
          ELSE /\ FailStage(1)
               /\ ForgetStage1
               /\ UNCHANGED written
    /\ UNCHANGED <<Environment, output_file, dirs, cap_open, vm_started, attempted,
                   Stage2Locals, Stage3Locals, s3_exit, clipsai_calls>>

\* The concatenation into output_file (clip.py:358-393).
S1Concat ==
    /\ pc = "s1_concat"
    /\ \E result \in TranscodeResults :
         /\ output_file' = Written(output_file, 1, result)
         /\ AfterTranscode(1, result)
    /\ ForgetStage1
    /\ UNCHANGED <<Environment, dirs, cap_open, vm_started, attempted, Stage2Locals,
                   Stage3Locals, s3_exit, clipsai_calls, written>>

\* Method 1.5 is skipped without its libraries (clip.py:413, 628-629).
S2Skip ==
    /\ pc = "stage2"
    /\ ~SCENE_DETECT_AVAILABLE
    /\ outcome' = [outcome EXCEPT ![2] = "skipped"]
    /\ pc' = Fallthrough(2)
    /\ UNCHANGED <<Environment, ret, output_file, dirs, cap_open, vm_started,
                   attempted, Stage1Locals, Stage2Locals, Stage3Locals, s3_exit,
                   clipsai_calls, written>>

\* S2Open without the test of SCENE_DETECT_AVAILABLE.
S2OpenUnguarded ==
    /\ pc = "stage2"
    /\ attempted' = Append(attempted, 2)
    /\ cap_open' = TRUE
    /\ pc' = "s2_detect"
    /\ UNCHANGED <<Environment, ret, output_file, dirs, vm_started, outcome,
                   Stage1Locals, Stage2Locals, Stage3Locals, s3_exit, clipsai_calls, written>>

\* cap = cv2.VideoCapture(input_file) and the reads of its properties
\* (clip.py:421-426).
S2Open ==
    /\ pc = "stage2"
    /\ SCENE_DETECT_AVAILABLE
    /\ attempted' = Append(attempted, 2)
    /\ cap_open' = TRUE
    /\ pc' = "s2_detect"
    /\ UNCHANGED <<Environment, ret, output_file, dirs, vm_started, outcome,
                   Stage1Locals, Stage2Locals, Stage3Locals, s3_exit, clipsai_calls, written>>

\* Scene detection, the temporary directory and the single-scene rule
\* (clip.py:430-454).
S2Detect ==
    /\ pc = "s2_detect"
    /\ \E n \in 0 .. MaxDetected, len \in 1 .. MaxSceneLen :
         /\ n * len <= video.total_frames
         /\ detected' = Scenes(n, len)
         /\ scene_list' = EffectiveScenes(Scenes(n, len), video.total_frames)
    /\ vm_started' = TRUE
    /\ dirs' = dirs \cup {"scene_analysis_tmp"}
    /\ pc' = "s2_sample"
    /\ UNCHANGED <<Environment, ret, output_file, cap_open, attempted, outcome,
                   Stage1Locals, key_frame_samples, avg_heat_map, crop, Stage3Locals,
                   s3_exit, clipsai_calls, written>>

\* One key frame per scene, at its mid frame (clip.py:457-491).
S2Sample ==
    /\ pc = "s2_sample"
    /\ key_frame_samples' = SampleFrom(video, scene_list, 1)
    /\ pc' = "s2_analyze"
    /\ UNCHANGED <<Environment, ret, output_file, dirs, cap_open, vm_started,
                   attempted, outcome, Stage1Locals, detected, scene_list,
                   avg_heat_map, crop, Stage3Locals, s3_exit, clipsai_calls, written>>

\* Faces and saliency of every key frame, summed and averaged (clip.py:494-538).
S2Analyze ==
    /\ pc = "s2_analyze"
    /\ avg_heat_map' = AggregateHeatMap(key_frame_samples, video.width, video.height)
    /\ pc' = "s2_select"
    /\ UNCHANGED <<Environment, ret, output_file, dirs, cap_open, vm_started,
                   attempted, outcome, Stage1Locals, detected, scene_list,
                   key_frame_samples, crop, Stage3Locals, s3_exit, clipsai_calls, written>>

\* The sliding window (clip.py:540-564).
S2Select ==
    /\ pc = "s2_select"
    /\ crop' = SelectCrop(avg_heat_map, video.width, video.height)
    /\ pc' = "s2_transcode"
    /\ UNCHANGED <<Environment, ret, output_file, dirs, cap_open, vm_started,
                   attempted, outcome, Stage1Locals, detected, scene_list,
                   key_frame_samples, avg_heat_map, Stage3Locals, s3_exit,
                   clipsai_calls, written>>

\* The crop-and-scale run on the selected window, then rmtree(temp_dir),
\* cap.release() and the test of the exit code (clip.py:566-621).
S2Transcode ==
    /\ pc = "s2_transcode"
    /\ \E result \in TranscodeResults \ {"raise"} :
         /\ output_file' = Written(output_file, 2, result)
         /\ AfterTranscode(2, result)
    /\ dirs' = dirs \ {"scene_analysis_tmp"}
    /\ cap_open' = FALSE
    /\ ForgetStage2
    /\ UNCHANGED <<Environment, vm_started, attempted, Stage1Locals, Stage3Locals,
                   s3_exit, clipsai_calls, written>>

\* Any call of method 1.5 raises (VideoManager on an unreadable file,
\* cv2.saliency missing from the build, cvtColor on an unreadable jpg, Popen
\* without ffmpeg): control goes to the except of clip.py:623-627, which
\* releases and removes nothing.
S2Raise ==
    /\ pc \in {"s2_detect", "s2_sample", "s2_analyze", "s2_select", "s2_transcode"}
    /\ IF pc = "s2_detect" THEN vm_started' \in BOOLEAN ELSE UNCHANGED vm_started
    /\ FailStage(2)
    /\ ForgetStage2
    /\ UNCHANGED <<Environment, output_file, dirs, cap_open, attempted, Stage1Locals,
                   Stage3Locals, s3_exit, clipsai_calls, written>>

\* Stage 3 ends without success for the reason `why`.
FailStage3(why) ==
    /\ s3_exit' = why
    /\ FailStage(3)
    /\ ForgetStage3

\* Method 2 up to the listing of the extracted frames (clip.py:632-676,
\* 790-796): ffprobe, the scene_analysis directory, one frame per second.
S3Probe ==
    /\ pc = "stage3"
    /\ attempted' = Append(attempted, 3)
    /\ \/ /\ FailStage3("probe_raise")    \* Popen or the parse of the csv raises
          /\ UNCHANGED <<dirs, written>>
       \/ /\ FailStage3("probe_failed")   \* ffprobe exits non-zero: nothing is tried
          /\ UNCHANGED <<dirs, written>>
       \/ /\ dirs' = dirs \cup {"scene_analysis"}
          /\ \E produced \in BOOLEAN :     \* the frame extraction wrote frames
               written' = IF produced THEN WriteInto("scene_analysis") ELSE written
          \* frame_files lists every .jpg of the directory (clip.py:674)
          /\ IF Writers("scene_analysis")' = {}
             THEN FailStage3("no_frames")
             ELSE /\ pc' = "s3_positions"
                  /\ UNCHANGED <<outcome, ret, Stage3Locals, s3_exit>>
    /\ UNCHANGED <<Environment, output_file, cap_open, vm_started, Stage1Locals,
                   Stage2Locals, clipsai_calls>>

\* S3Positions giving the stage up when a test frame could not be extracted.
S3PositionsStrict ==
    /\ pc = "s3_positions"
    /\ \E extracted \in SUBSET PositionNames :
         IF extracted = PositionNames
         THEN /\ test_frames' = extracted
              /\ best_pos' = SelectPosition(CropPositions(video.width, video.height),
                                            extracted)
              /\ pc' = "s3_transcode"
              /\ UNCHANGED <<outcome, ret, s3_exit>>
         ELSE FailStage3("test_frame_failed")
    /\ written' = WriteInto("scene_analysis")
    /\ UNCHANGED <<Environment, output_file, dirs, cap_open, vm_started, attempted,
                   Stage1Locals, Stage2Locals, clipsai_calls>>

\* The five candidate positions, one test frame extracted for each (the result
\* of subprocess.run is not looked at), and the choice of best_pos
\* (clip.py:677-751).
S3Positions ==
    /\ pc = "s3_positions"
    /\ \E extracted \in SUBSET PositionNames :
         /\ test_frames' = extracted
         /\ best_pos' = SelectPosition(CropPositions(video.width, video.height),
                                       extracted)
         /\ written' = IF extracted # {} THEN WriteInto("scene_analysis")  \* crop_*.jpg
                       ELSE written
    /\ pc' = "s3_transcode"
    /\ UNCHANGED <<Environment, ret, output_file, dirs, cap_open, vm_started,
                   attempted, outcome, Stage1Locals, Stage2Locals, s3_exit,
                   clipsai_calls>>

\* The crop-and-scale run on best_pos, rmtree of the frame directory and the
\* test of the exit code (clip.py:753-789).
S3Transcode ==
    /\ pc = "s3_transcode"
    /\ \E result \in TranscodeResults \ {"raise"} :
         /\ output_file' = Written(output_file, 3, result)
         /\ AfterTranscode(3, result)
         /\ s3_exit' = IF Succeeded(result) THEN "transcode_ok" ELSE "transcode_failed"
    /\ dirs' = dirs \ {"scene_analysis"}
    /\ written' = RemoveTree("scene_analysis")
    /\ ForgetStage3
    /\ UNCHANGED <<Environment, cap_open, vm_started, attempted, Stage1Locals,
                   Stage2Locals, clipsai_calls>>

\* subprocess.run or Popen of method 2 raises (no ffmpeg): the except of
\* clip.py:793-796, which removes nothing.
S3Raise ==
    /\ pc \in {"s3_positions", "s3_transcode"}
    /\ FailStage3(IF pc = "s3_positions" THEN "positions_raise" ELSE "transcode_raise")
    /\ UNCHANGED <<Environment, output_file, dirs, cap_open, vm_started, attempted,
                   Stage1Locals, Stage2Locals, clipsai_calls, written>>

\* Method 3, the rule-of-thirds crop (clip.py:798-836).
S4Transcode ==
    /\ pc = "stage4"
    /\ attempted' = Append(attempted, 4)
    /\ \E result \in TranscodeResults :
         /\ output_file' = Written(output_file, 4, result)
         /\ AfterTranscode(4, result)
    /\ UNCHANGED <<Environment, dirs, cap_open, vm_started, Stage1Locals, Stage2Locals,
                   Stage3Locals, s3_exit, clipsai_calls, written>>

\* One call of resize_for_tiktok on its own: main and the second run stand still.
Alone == UNCHANGED <<MainVars, TwiceVars, slide>>

Next ==
    \/ Call /\ Alone
    \/ S1Resize /\ Alone
    \/ S1Segments /\ Alone
    \/ S1Concat /\ Alone
    \/ S2Skip /\ Alone
    \/ S2Open /\ Alone
    \/ S2Detect /\ Alone
    \/ S2Sample /\ Alone
    \/ S2Analyze /\ Alone
    \/ S2Select /\ Alone
    \/ S2Transcode /\ Alone
    \/ S2Raise /\ Alone
    \/ S3Probe /\ Alone
    \/ S3Positions /\ Alone
    \/ S3Transcode /\ Alone
    \/ S3Raise /\ Alone
    \/ S4Transcode /\ Alone

Spec == Init /\ [][Next]_vars

\* Every call the function makes returns or raises: a step that can be taken
\* is taken.
FairSpec == Spec /\ WF_vars(Next)

\* ------------------------------------------------------- main's clip loop
\* main from the first pass of the loop on (clip.py:904-954): the clips were
\* found, the list is not empty and ffmpeg answered.
MaxClips == 2

ClipDurations == 1 .. 3

ArgSets == [resize : BOOLEAN, token : BOOLEAN, min_duration : {2}, max_duration : {2}]

\* The file extract_clip leaves for resize_for_tiktok: a short one.
ClipVideos ==
    {[width |-> 5, height |-> 4, total_frames |-> 2, content |-> "face_left",
      bad |-> "none"]}

\* ShouldResize without the test of the token.
ResizeRequested(a) == a.resize

\* resize_for_tiktok is called when --resize is given together with a
\* non-empty --token (clip.py:938-944).
ShouldResize(a) == a.resize /\ a.token

\* The loop stopping at the first clip that failed.
AbortOnFailure(i, ok) == IF ok THEN i + 1 ELSE Len(clips) + 1

\* for i, clip in enumerate(clips): whatever happened to clip i, the loop goes
\* on with the next one (clip.py:907, 916, 921, 947-949).
NextClip(i, ok) == i + 1

LogEntry(i, what, resize) == [clip |-> i, what |-> what, resize |-> resize]

InitMain ==
    /\ RESIZE_AVAILABLE \in BOOLEAN
    /\ SCENE_DETECT_AVAILABLE \in BOOLEAN
    /\ video \in {CHOOSE v \in ClipVideos : TRUE}
    /\ pc = "idle"
    /\ FreshCascade
    /\ args \in ArgSets
    /\ clips \in SeqsUpTo(ClipDurations, MaxClips) \ {<<>>}
    /\ clip_i = 1
    /\ main_pc = "loop"
    /\ successful_clips = 0
    /\ skipped_clips = 0
    /\ log = <<>>
    /\ summary = NoSummary
    /\ NoTwice

\* MainSkip counting the clip it passes over as successful as well.
MainSkipCountedTwice ==
    /\ main_pc = "loop"
    /\ clip_i <= Len(clips)
    /\ clips[clip_i] < args.min_duration \/ clips[clip_i] > args.max_duration
    /\ skipped_clips' = skipped_clips + 1
    /\ successful_clips' = successful_clips + 1
    /\ log' = Append(log, LogEntry(clip_i, "skipped", "none"))
    /\ clip_i' = NextClip(clip_i, TRUE)
    /\ UNCHANGED <<CascadeVars, args, clips, main_pc, summary, TwiceVars, slide>>

\* A clip too short or too long is counted and passed over (clip.py:913-921).
MainSkip ==
    /\ main_pc = "loop"
    /\ clip_i <= Len(clips)
    /\ clips[clip_i] < args.min_duration \/ clips[clip_i] > args.max_duration
    /\ skipped_clips' = skipped_clips + 1
    /\ log' = Append(log, LogEntry(clip_i, "skipped", "none"))
    /\ clip_i' = NextClip(clip_i, TRUE)
    /\ UNCHANGED <<CascadeVars, args, clips, main_pc, successful_clips, summary, TwiceVars, slide>>

\* One pass of the loop for a clip of accepted duration, up to the call of
\* resize_for_tiktok (clip.py:923-949): extract_clip, create_srt_file (its
\* result only decides a print), then the resize when it is asked for.
MainExtract ==
    /\ main_pc = "loop"
    /\ clip_i <= Len(clips)
    /\ ~(clips[clip_i] < args.min_duration \/ clips[clip_i] > args.max_duration)
    /\ \/ /\ log' = Append(log, LogEntry(clip_i, "extract_failed", "none"))
          /\ clip_i' = NextClip(clip_i, FALSE)
          /\ UNCHANGED <<CascadeVars, main_pc, successful_clips>>
       \/ /\ ShouldResize(args)
          /\ main_pc' = "resizing"
          /\ video' \in ClipVideos
          /\ pc' = "call"
          /\ ret' = "none"
          /\ output_file' = [state |-> "absent", by |-> 0]
          /\ attempted' = <<>>
          /\ outcome' = [k \in 1 .. 4 |-> "none"]
          /\ s3_exit' = "none"
          /\ UNCHANGED <<RESIZE_AVAILABLE, SCENE_DETECT_AVAILABLE, dirs, cap_open,
                         vm_started, Stage1Locals, Stage2Locals, Stage3Locals,
                         clipsai_calls, written, clip_i, successful_clips, log>>
       \/ /\ ~ShouldResize(args)
          /\ successful_clips' = successful_clips + 1
          /\ log' = Append(log, LogEntry(clip_i, "extracted",
                                         IF args.resize THEN "no_token"
                                         ELSE "not_requested"))
          /\ clip_i' = NextClip(clip_i, TRUE)
          /\ UNCHANGED <<CascadeVars, main_pc>>
    /\ UNCHANGED <<args, clips, skipped_clips, summary, TwiceVars, slide>>

\* resize_for_tiktok has returned: its result decides a print, the clip is
\* counted (clip.py:944-947).
MainResized ==
    /\ main_pc = "resizing"
    /\ pc = "done"
    /\ successful_clips' = successful_clips + 1
    /\ log' = Append(log, LogEntry(clip_i, "extracted", ret))
    /\ clip_i' = NextClip(clip_i, ret = "True")
    /\ main_pc' = "loop"
    /\ pc' = "idle"
    /\ UNCHANGED <<Environment, ret, output_file, dirs, cap_open, vm_started, attempted,
                   outcome, Stage1Locals, Stage2Locals, Stage3Locals, s3_exit,
                   clipsai_calls, written, args, clips, skipped_clips, summary, TwiceVars, slide>>

\* The processing summary (clip.py:951-954).
MainSummary ==
    /\ main_pc = "loop"
    /\ clip_i > Len(clips)
    /\ summary' = [found |-> Len(clips), successful |-> successful_clips,
                   skipped |-> skipped_clips]
    /\ main_pc' = "end"
    /\ UNCHANGED <<CascadeVars, args, clips, clip_i, successful_clips, skipped_clips,
                   log, TwiceVars, slide>>

NextMain ==
    \/ MainSkip
    \/ MainExtract
    \/ MainResized
    \/ MainSummary
    \/ Call /\ Alone
    \/ S1Resize /\ Alone
    \/ S1Segments /\ Alone
    \/ S1Concat /\ Alone
    \/ S2Skip /\ Alone
    \/ S2Open /\ Alone
    \/ S2Detect /\ Alone
    \/ S2Sample /\ Alone
    \/ S2Analyze /\ Alone
    \/ S2Select /\ Alone
    \/ S2Transcode /\ Alone
    \/ S2Raise /\ Alone
    \/ S3Probe /\ Alone
    \/ S3Positions /\ Alone
    \/ S3Transcode /\ Alone
    \/ S3Raise /\ Alone
    \/ S4Transcode /\ Alone

SpecMain == InitMain /\ [][NextMain]_vars

\* ------------------------------------------- two runs on the same input
\* resize_for_tiktok is called twice with the same input and output file; the
\* second call finds whatever the first one left: directories, handles, the
\* output file.
TwiceVideos ==
    {[width |-> 5, height |-> 4, total_frames |-> 2, content |-> "mixed",
      bad |-> "none"]}

InitTwice ==
    /\ RESIZE_AVAILABLE \in BOOLEAN
    /\ SCENE_DETECT_AVAILABLE \in BOOLEAN
    /\ video \in TwiceVideos
    /\ pc = "call"
    /\ FreshCascade
    /\ NoMain
    /\ run = 1
    /\ sel = NoSel
    /\ first_sel = NoSel
    /\ slide = NoSlide

\* The selections of the run under way, noted as they are made: the detected
\* scene list (clip.py:445), the window of stage 2 (clip.py:562), best_pos of
\* stage 3 (clip.py:748).
Observe ==
    /\ sel' = IF pc = "s2_detect" /\ pc' = "s2_sample"
                THEN [sel EXCEPT !.scenes = detected']
              ELSE IF pc = "s2_select" /\ pc' = "s2_transcode"
                THEN [sel EXCEPT !.s2 = crop']
              ELSE IF pc = "s3_positions" /\ pc' = "s3_transcode"
                THEN [sel EXCEPT !.s3 = best_pos']
              ELSE sel
    /\ UNCHANGED <<run, first_sel, MainVars, slide>>

\* The second call (clip.py:187-205): the locals start afresh, the file
\* system and the process keep what the first call left.
Again ==
    /\ pc = "done"
    /\ run = 1
    /\ run' = 2
    /\ first_sel' = sel
    /\ sel' = NoSel
    /\ pc' = "call"
    /\ ret' = "none"
    /\ attempted' = <<>>
    /\ outcome' = [k \in 1 .. 4 |-> "none"]
    /\ s3_exit' = "none"
    /\ UNCHANGED <<Environment, output_file, dirs, cap_open, vm_started, Stage1Locals,
                   Stage2Locals, Stage3Locals, clipsai_calls, written, MainVars, slide>>

NextTwice ==
    \/ Again
    \/ Call /\ Observe
    \/ S1Resize /\ Observe
    \/ S1Segments /\ Observe
    \/ S1Concat /\ Observe
    \/ S2Skip /\ Observe
    \/ S2Open /\ Observe
    \/ S2Detect /\ Observe
    \/ S2Sample /\ Observe
    \/ S2Analyze /\ Observe
    \/ S2Select /\ Observe
    \/ S2Transcode /\ Observe
    \/ S2Raise /\ Observe
    \/ S3Probe /\ Observe
    \/ S3Positions /\ Observe
    \/ S3Transcode /\ Observe
    \/ S3Raise /\ Observe
    \/ S4Transcode /\ Observe

SpecTwice == InitTwice /\ [][NextTwice]_vars

\* ------------------------------------------- the analysis of stage 2 alone
\* Stage 2 between the sampling loop and the transcoding, on every frame size
\* up to MaxWidth x MaxHeight (and one wide size, where the sliding step
\* exceeds 1) and every choice of key frames from a catalogue of faces and
\* saliency results.
OtherSizes == {<<24, 2>>, <<2, 8>>}

SelSizes == ((0 .. MaxWidth) \X (0 .. MaxHeight)) \cup OtherSizes

\* Rectangles detectMultiScale can return in a width x height frame: one
\* pixel wide and high, in the top or the bottom row.
FaceRects(width, height) ==
    {<<x, y, 1, 1>> : x \in 0 .. width - 1, y \in {0, height - 1} \cap (0 .. height - 1)}

\* No face, one face anywhere, or two faces in the top row, one of them in
\* the first MaxWidth columns.
FaceSets(width, height) ==
    {{}} \cup {{a} : a \in FaceRects(width, height)}
         \cup {{a, b} : a \in {r \in FaceRects(width, height) : r[2] = 0 /\ r[1] < MaxWidth},
                        b \in {r \in FaceRects(width, height) : r[2] = 0}}

SelFirstFrames(width, height) ==
    [frame : {0}, faces : FaceSets(width, height), sal : {"fail", "left", "right"}]

SelMoreFrames(width, height) ==
    [frame : {1}, faces : {{}} \cup {{r} : r \in FaceRects(width, height) \cap {<<0, 0, 1, 1>>}},
     sal : {"fail", "flat"}]

SelKeyFrames(width, height) ==
    {<<>>}
    \cup {<<f>> \o rest : f \in SelFirstFrames(width, height),
                          rest \in SeqsUpTo(SelMoreFrames(width, height), MaxKeyFrames - 1)}

InitSel ==
    /\ RESIZE_AVAILABLE = TRUE
    /\ SCENE_DETECT_AVAILABLE = TRUE
    /\ \E size \in SelSizes :
         /\ video = [width |-> size[1], height |-> size[2], total_frames |-> TotalFrames,
                     content |-> "custom", bad |-> "none"]
         /\ key_frame_samples \in SelKeyFrames(size[1], size[2])
    /\ pc = "s2_analyze"
    /\ ret = "none"
    /\ output_file = [state |-> "absent", by |-> 0]
    /\ dirs = {"scene_analysis_tmp"}
    /\ cap_open = TRUE
    /\ vm_started = TRUE
    /\ attempted = <<1, 2>>
    /\ outcome = [k \in 1 .. 4 |-> IF k = 1 THEN "failed" ELSE "none"]
    /\ crops = NoCrops
    /\ segment_files = <<>>
    /\ detected = <<>>
    /\ scene_list = << <<0, TotalFrames>> >>
    /\ avg_heat_map = EmptyHeatMap
    /\ crop = NoCrop
    /\ test_frames = {}
    /\ best_pos = NoPos
    /\ s3_exit = "none"
    /\ clipsai_calls = 1
    /\ written = {}
    /\ NoMain
    /\ NoTwice

NextSel ==
    \/ S2Analyze /\ Alone
    \/ S2Select /\ Alone

SpecSel == InitSel /\ [][NextSel]_vars

\* ------------------------------- the selector on one face, step by step
\* The sliding loop of clip.py:556-562 taken one candidate at a time, for a
\* heat map made of one key frame with one face rectangle and no saliency:
\* face_weight on the painted cells, 0 elsewhere. The map of a 1920 x 1080
\* frame has two million cells and is not stored; np.sum over a window is
\* then face_weight times the number of painted cells inside the window.
FullHD == <<1920, 1080>>

\* Face rectangles of a 1920 x 1080 frame covering x = 200 .. 400.
FullHDFaces == {<<200, y, 200, h>> : y \in {0, 440, 1079}, h \in {1, 200}}

SmallFaces(width, height) ==
    {<<x, y, w, h>> : x \in 0 .. width - 1, y \in 0 .. height - 1,
                      w \in 1 .. 2, h \in 1 .. 2}

\* Frames with width - target_width = 10, 19 and 29: the step of the loop is
\* 1, 1 and 2.
SlackSizes == {<<11, 2>>, <<20, 2>>, <<30, 2>>}

SlideInputs ==
    {<<FullHD, rect>> : rect \in FullHDFaces}
    \cup UNION {{<<size, rect>> : rect \in SmallFaces(size[1], size[2])} :
                  size \in ((1 .. MaxWidth) \X (1 .. MaxHeight)) \cup OtherSizes
                           \cup SlackSizes}

\* How many integers lie in both a .. b and c .. d.
Overlap(a, b, c, d) == Max(0, Min(b, d) - Max(a, c) + 1)

\* FaceOnlyScore with the rectangle painted at (y, x): rows and columns
\* exchanged.
FaceOnlyScoreTransposed(rect, width, height, x) ==
    LET tw == TargetWidth(width, height)
        th == TargetHeight(width, height)
    IN face_weight
       * Overlap(rect[2], rect[2] + rect[4], x, Min(x + tw, width) - 1)
       * Overlap(rect[1], rect[1] + rect[3], 0, Min(th, height) - 1)

\* np.sum(avg_heat_map[:target_height, x:x+target_width]) when the map is
\* cv2.rectangle(.., (x, y), (x+w, y+h), face_weight, -1) of one frame
\* (clip.py:523, 558-559): the painted columns inside the window times the
\* painted rows inside it, both clipped to the frame.
FaceOnlyScore(rect, width, height, x) ==
    LET tw == TargetWidth(width, height)
        th == TargetHeight(width, height)
    IN face_weight
       * Overlap(rect[1], rect[1] + rect[3], x, Min(x + tw, width) - 1)
       * Overlap(rect[2], rect[2] + rect[4], 0, Min(th, height) - 1)

InitSlide ==
    /\ RESIZE_AVAILABLE = TRUE
    /\ SCENE_DETECT_AVAILABLE = TRUE
    /\ \E input \in SlideInputs :
         /\ video = [width |-> input[1][1], height |-> input[1][2],
                     total_frames |-> TotalFrames, content |-> "custom", bad |-> "none"]
         /\ key_frame_samples = <<[frame |-> 0, faces |-> {input[2]}, sal |-> "fail"]>>
    /\ pc = "s2_select"
    /\ ret = "none"
    /\ output_file = [state |-> "absent", by |-> 0]
    /\ dirs = {"scene_analysis_tmp"}
    /\ cap_open = TRUE
    /\ vm_started = TRUE
    /\ attempted = <<1, 2>>
    /\ outcome = [k \in 1 .. 4 |-> IF k = 1 THEN "failed" ELSE "none"]
    /\ crops = NoCrops
    /\ segment_files = <<>>
    /\ detected = <<>>
    /\ scene_list = << <<0, TotalFrames>> >>
    /\ avg_heat_map = EmptyHeatMap
    /\ crop = NoCrop
    /\ test_frames = {}
    /\ best_pos = NoPos
    /\ s3_exit = "none"
    /\ clipsai_calls = 1
    /\ written = {}
    /\ NoMain
    /\ run = 0
    /\ sel = NoSel
    /\ first_sel = NoSel
    /\ slide = [k |-> 1, best_score |-> -HeatUnit, best_x |-> 0, evaluated |-> <<>>]

TheFace == CHOOSE rect \in key_frame_samples[1].faces : TRUE

\* One pass of the loop (clip.py:556-562).
SlideOnce ==
    /\ pc = "s2_select"
    /\ LET xs == Candidates(video.width, TargetWidth(video.width, video.height))
       IN /\ slide.k <= Len(xs)
          /\ LET crop_score == FaceOnlyScore(TheFace, video.width, video.height,
                                             xs[slide.k])
                 seen == Append(slide.evaluated, xs[slide.k])
             IN slide' = IF Better(crop_score, slide.best_score)
                         THEN [k |-> slide.k + 1, best_score |-> crop_score,
                               best_x |-> xs[slide.k], evaluated |-> seen]
                         ELSE [slide EXCEPT !.k = slide.k + 1, !.evaluated = seen]
    /\ UNCHANGED <<CascadeVars, MainVars, TwiceVars>>

\* The loop is over: the window handed to ffmpeg (clip.py:564, 587).
SlideDone ==
    /\ pc = "s2_select"
    /\ slide.k > Len(Candidates(video.width, TargetWidth(video.width, video.height)))
    /\ crop' = [x |-> slide.best_x, y |-> 0,
                w |-> TargetWidth(video.width, video.height),
                h |-> TargetHeight(video.width, video.height)]
    /\ pc' = "s2_transcode"
    /\ UNCHANGED <<Environment, ret, output_file, dirs, cap_open, vm_started,
                   attempted, outcome, Stage1Locals, detected, scene_list,
                   key_frame_samples, avg_heat_map, Stage3Locals, s3_exit,
                   clipsai_calls, written, MainVars, TwiceVars, slide>>

NextSlide == SlideOnce \/ SlideDone

SpecSlide == InitSlide /\ [][NextSlide]_vars
\* ------------------------------------------------------------------ claims
Range(q) == {q[i] : i \in DOMAIN q}

Ended(stage) == outcome[stage] = "failed" \/ (stage = 2 /\ outcome[2] = "skipped")

\* C1: the stages are attempted in the order 1, 2, 3, 4; a stage is attempted
\* only after every earlier stage has ended in failure (stage 2 also by being
\* unavailable); after a failure of stage 1, 2 or 3 control stands at the next
\* stage or has attempted it, and after a failure of stage 4 the call has
\* returned False.
C1_StagesInOrder ==
    /\ \A i \in DOMAIN attempted : attempted[i] \in 1 .. 4
    /\ \A i \in DOMAIN attempted, j \in DOMAIN attempted :
         i < j => attempted[i] < attempted[j]
    /\ \A k \in Range(attempted) : \A j \in 1 .. k - 1 : Ended(j)
    /\ outcome[2] = "skipped" => ~SCENE_DETECT_AVAILABLE
    /\ (outcome[1] = "failed" /\ SCENE_DETECT_AVAILABLE)
         => (pc = "stage2" \/ 2 \in Range(attempted))
    /\ Ended(2) => (pc = "stage3" \/ 3 \in Range(attempted))
    /\ outcome[3] = "failed" => (pc = "stage4" \/ 4 \in Range(attempted))
    /\ outcome[4] = "failed" => (pc = "done" /\ ret = "False")

C1_Witness ==
    /\ attempted = <<1, 2, 3, 4>>
    /\ \A k \in 1 .. 4 : outcome[k] = "failed"
    /\ ret = "False"

\* C2: once a stage has succeeded the call has returned True, that stage is
\* the last one attempted, no later stage has an outcome, and the file at the
\* output path is the complete file that stage wrote; True is returned only
\* for a stage that succeeded.
C2_StopsAtFirstSuccess ==
    /\ \A k \in 1 .. 4 :
         outcome[k] = "ok" =>
           /\ ret = "True" /\ pc = "done"
           /\ attempted # <<>> /\ attempted[Len(attempted)] = k
           /\ \A j \in k + 1 .. 4 : outcome[j] = "none"
           /\ output_file = [state |-> "complete", by |-> k]
    /\ ret = "True" => \E k \in 1 .. 4 : outcome[k] = "ok"

C2_Witness ==
    /\ outcome[2] = "ok"
    /\ ret = "True"
    /\ attempted = <<1, 2>>

\* C3: without the resize collaborator the cascade still goes through stages
\* 2 to 4, and failure is returned only after stage 4 has failed.
C3_UnavailableStillAdvances ==
    (~RESIZE_AVAILABLE /\ ret = "False") => outcome[4] = "failed"

\* C4: when the call has returned False after stage 4 failed, no file exists
\* at the output path.
C4_NoOutputAfterTotalFailure ==
    (ret = "False" /\ outcome[4] = "failed") => output_file.state = "absent"

\* C5: the file at the output path is always either absent or the complete
\* file of a stage that succeeded.
C5_AtomicPublish ==
    /\ output_file.state \in {"absent", "complete"}
    /\ output_file.state = "complete" => outcome[output_file.by] = "ok"

\* C6: when the call has returned, no temporary directory it created is left.
C6_TempDirsRemoved == ret # "none" => dirs = {}

\* The sum of the heat map over the window of width w and height h at <<x, 0>>.
RECURSIVE SumOver(_, _)
SumOver(f, S) ==
    IF S = {} THEN 0
    ELSE LET c == CHOOSE c \in S : TRUE IN f[c] + SumOver(f, S \ {c})

EnclosedSum(hm, x, w, h) ==
    SumOver(hm.num, {c \in DOMAIN hm.num : c[1] < h /\ x <= c[2] /\ c[2] < x + w})

Selected == pc = "s2_transcode" /\ crop # NoCrop

\* C7: the window the selector chooses lies inside the frame, with y = 0, and
\* is floor(height*9/16) x height or width x floor(width*16/9).
C7_CropInsideFrame ==
    Selected =>
      /\ 0 <= crop.x /\ crop.x + crop.w <= video.width
      /\ crop.y = 0 /\ crop.h <= video.height
      /\ \/ crop.w = (video.height * 9) \div 16 /\ crop.h = video.height
         \/ crop.w = video.width /\ crop.h = (video.width * 16) \div 9

C7_Witness ==
    /\ Selected
    /\ crop.x > 0 /\ crop.x + crop.w = video.width
    /\ crop.w > 0

\* The positions range(0, width - w + 1, max(1, (width - w) // 10)) visits.
EvaluatedPositions(width, w) ==
    {x \in 0 .. width - w : x % Max(1, (width - w) \div 10) = 0}

\* C8: the selected x is an evaluated position whose enclosed sum is maximal
\* among the evaluated positions, and the smallest such position.
C8_LeftmostMaximum ==
    Selected =>
      LET xs == EvaluatedPositions(video.width, crop.w)
          best == EnclosedSum(avg_heat_map, crop.x, crop.w, crop.h)
      IN /\ crop.x \in xs
         /\ \A x \in xs :
              LET sum == EnclosedSum(avg_heat_map, x, crop.w, crop.h)
              IN sum <= best /\ (sum = best => crop.x <= x)

C8_Witness ==
    /\ Selected
    /\ crop.x > 0
    /\ \E x \in EvaluatedPositions(video.width, crop.w) :
         /\ x > crop.x
         /\ EnclosedSum(avg_heat_map, x, crop.w, crop.h)
              = EnclosedSum(avg_heat_map, crop.x, crop.w, crop.h)
    /\ \E x \in EvaluatedPositions(video.width, crop.w) :
         /\ x < crop.x
         /\ EnclosedSum(avg_heat_map, x, crop.w, crop.h) > 0

\* C9: with 0 or more than 20 detected scenes the effective scene list is the
\* single interval [0, total_frames); with 1 to 20 it is the detected list.
C9_SceneCollapse ==
    pc \in {"s2_sample", "s2_analyze", "s2_select", "s2_transcode"} =>
      IF Len(detected) = 0 \/ Len(detected) > 20
      THEN scene_list = << <<0, video.total_frames>> >>
      ELSE scene_list = detected

C9_Witness ==
    /\ pc = "s2_sample"
    /\ Len(detected) = 20
    /\ scene_list = detected

\* C10: stage 2 never selects a crop window, and so never reaches its
\* transcoding, from an empty set of key frames.
C10_NoCropFromNoFrames == ~(Selected /\ key_frame_samples = <<>>)
Aggregated == pc = "s2_select" /\ avg_heat_map # EmptyHeatMap

\* C11: the aggregated heat map is the same for every order of the same key
\* frames.
C11_OrderIndependent ==
    Aggregated =>
      \A p \in Permutations(1 .. Len(key_frame_samples)) :
        AggregateHeatMap([i \in 1 .. Len(key_frame_samples) |-> key_frame_samples[p[i]]],
                         video.width, video.height) = avg_heat_map

C11_Witness ==
    /\ Aggregated
    /\ Len(key_frame_samples) >= 2
    /\ key_frame_samples[1].faces # key_frame_samples[2].faces
    /\ key_frame_samples[1].sal = "left"
    /\ \E c \in DOMAIN avg_heat_map.num : avg_heat_map.num[c] = face_weight

\* The cells of the rectangle <<x, y, w, h>>: columns x .. x+w-1, rows y .. y+h-1.
InRect(rect, cell) ==
    /\ rect[1] <= cell[2] /\ cell[2] < rect[1] + rect[3]
    /\ rect[2] <= cell[1] /\ cell[1] < rect[2] + rect[4]

\* C12: one key frame with exactly one face rectangle and no saliency gives a
\* heat map that is 0.6 on the cells of the rectangle and 0 on every other cell.
C12_FaceOnlyHeat ==
    (/\ Aggregated
     /\ Len(key_frame_samples) = 1
     /\ Cardinality(key_frame_samples[1].faces) = 1
     /\ key_frame_samples[1].sal = "fail")
    => \A cell \in DOMAIN avg_heat_map.num :
         LET rect == CHOOSE r \in key_frame_samples[1].faces : TRUE
         IN avg_heat_map.num[cell] * 10
              = (IF InRect(rect, cell) THEN 6 ELSE 0) * avg_heat_map.den

\* C13: the crop stage 3 hands to the transcoder is the golden-ratio-from-left
\* position, x = max(0, (width - target_width) * 0.618), y = 0, height = the
\* frame height, width = height * 9/16, whatever test frames were extracted.
C13_GoldenLeft ==
    pc = "s3_transcode" =>
      /\ best_pos.desc = "golden_left"
      /\ best_pos.x = Max(0, (16 * video.width - 9 * video.height) * 618)
      /\ best_pos.y = 0
      /\ best_pos.height = video.height * PosUnit
      /\ 16 * best_pos.width = 9 * video.height * PosUnit

C13_Witness ==
    /\ pc = "s3_transcode"
    /\ test_frames = {}
    /\ best_pos.x > 0
    /\ best_pos.x # CropPositions(video.width, video.height)[1].x

\* C17: the segment loop appends exactly the segments that were transcoded, in
\* the order clipsai_resize returned them and once each, and a skipped segment
\* does not end the stage while another one survives.
C17_SegmentOrder ==
    [][pc = "s1_segments" =>
         LET ok == {i \in DOMAIN crops.segments : crops.segments[i] = "ok"}
         IN IF ok = {}
            THEN pc' = "stage2"
            ELSE /\ pc' = "s1_concat"
                 /\ Range(segment_files') = ok
                 /\ Len(segment_files') = Cardinality(ok)
                 /\ \A i, j \in DOMAIN segment_files' :
                      i < j => segment_files'[i] < segment_files'[j]]_vars

C17_Witness ==
    /\ pc = "s1_concat"
    /\ \E i, j \in DOMAIN crops.segments :
         /\ i < j
         /\ crops.segments[i] \in {"no_time", "bad_crop"}
         /\ crops.segments[j] = "ok"
         /\ j \in Range(segment_files)

\* C20, as the specification states it: stage 3 falls through to stage 4 only
\* after its final crop-and-scale run failed.
C20_AdvanceOnlyOnTranscode ==
    outcome[3] = "failed" => s3_exit \in {"transcode_failed", "transcode_raise"}

\* C20, as the code has it: stage 3 also falls through when ffprobe raises or
\* exits non-zero, when no frame was extracted, or when a later call raises;
\* the results of the test-frame extractions never end the stage, and the
\* stage succeeds only through its final run.
C20_AdvanceReasons ==
    /\ outcome[3] = "failed" =>
         s3_exit \in {"probe_raise", "probe_failed", "no_frames", "positions_raise",
                      "transcode_failed", "transcode_raise"}
    /\ outcome[3] = "ok" => s3_exit = "transcode_ok"
    /\ pc \in {"s3_positions", "s3_transcode"} => s3_exit = "none" /\ outcome[3] = "none"

C20_Witness ==
    /\ outcome[3] = "failed"
    /\ s3_exit = "no_frames"
    /\ pc = "stage4"

\* C14: no clip's failure ends the loop: the clips are processed one after the
\* other in list order, the run can stop only after the summary, and by then
\* every clip of the list has been processed.
C14_LoopNeverAborts ==
    /\ \A k \in DOMAIN log : log[k].clip = k
    /\ Len(log) <= Len(clips)
    /\ main_pc # "end" => clip_i = Len(log) + 1 /\ ENABLED NextMain
    /\ main_pc = "end" => /\ Len(log) = Len(clips)
                          /\ summary # NoSummary
                          /\ summary.found = Len(clips)

C14_Witness ==
    /\ main_pc = "end"
    /\ summary # NoSummary
    /\ \E j, k \in DOMAIN log :
         /\ j < k
         /\ log[j].what = "extracted" /\ log[j].resize = "False"
         /\ log[k].what = "extracted"

\* C15: a clip whose resize was asked for and for which resize_for_tiktok
\* returned False is not among the clips the summary counts as successful.
C15_FailedResizeNotCounted ==
    main_pc = "end" =>
      summary.successful
        <= Cardinality({k \in DOMAIN log : log[k].what = "extracted"
                                            /\ log[k].resize # "False"})

\* C16: without a token clipsai_resize is never called, for any clip.
C16_NoTokenNoCollaborator ==
    ~args.token => clipsai_calls = 0 /\ pc = "idle"

C16_Witness ==
    /\ ~args.token
    /\ args.resize
    /\ main_pc = "end"
    /\ \E k \in DOMAIN log : log[k].resize = "no_token"

\* C18: a second run of the cascade on the same input selects the same window
\* at stage 2 (given the same scene list) and the same window at stage 3 as the
\* first run did, whatever the first run left behind.
C18_SameSelections ==
    run = 2 =>
      /\ (/\ sel.s2 # NoCrop
          /\ first_sel.s2 # NoCrop
          /\ sel.scenes = first_sel.scenes) => sel.s2 = first_sel.s2
      /\ (sel.s3 # NoPos /\ first_sel.s3 # NoPos) => sel.s3 = first_sel.s3

C18_Witness ==
    /\ run = 2
    /\ sel.s2 # NoCrop /\ first_sel.s2 = sel.s2 /\ sel.scenes = first_sel.scenes
    /\ sel.s2.x > 0
    /\ sel.s3 # NoPos /\ first_sel.s3 = sel.s3
    /\ vm_started
    /\ output_file.state # "absent"

\* C19: on a 1920 x 1080 frame whose only heat is one face rectangle covering
\* x = 200 .. 400, the selected x is left of the center position 656 and the
\* window covers the rectangle: x <= 200 and x + target_width >= 400. On the
\* small frames the loop on counted cells selects what SelectCrop selects on
\* the stored map, with the same score.
C19_FaceLeftOfCenter ==
    (pc = "s2_transcode" /\ slide # NoSlide) =>
      /\ <<video.width, video.height>> = FullHD =>
           /\ crop.x < (1920 - 608) \div 2
           /\ crop.x <= 200
           /\ crop.x + crop.w >= 400
      /\ <<video.width, video.height>> # FullHD =>
           LET hm == AggregateHeatMap(key_frame_samples, video.width, video.height)
           IN /\ crop = SelectCrop(hm, video.width, video.height)
              /\ slide.best_score = CropScore(hm, video.width, video.height, crop.x)

C19_Witness ==
    /\ pc = "s2_transcode"
    /\ <<video.width, video.height>> = FullHD
    /\ TheFace = <<200, 440, 200, 200>>
    /\ crop.w = 607
    /\ slide.k = 12
    /\ slide.best_score = face_weight * 201 * 201

\* C21: when stage 2 has ended, by success, by a failed transcode or by an
\* exception, the capture and the VideoManager it opened are released.
C21_HandlesReleased ==
    outcome[2] \in {"ok", "failed"} => ~cap_open /\ ~vm_started

\* C22: the directories an invocation works in are its own: temp_resize holds
\* no file of an earlier invocation when the segments are about to be written,
\* and stage 3 goes on to the positions only on frames this invocation wrote.
C22_ExclusiveTempDir ==
    /\ pc = "s1_segments" => Writers("temp_resize") = {}
    /\ pc = "s3_positions" => Invocation \in Writers("scene_analysis")

\* C23: the crop window stage 3 hands to the transcoder lies within the probed
\* frame: x >= 0, y >= 0, x + width <= frame width, y + height <= frame height.
C23_WindowInFrame ==
    pc = "s3_transcode" =>
        /\ best_pos.x >= 0
        /\ best_pos.y >= 0
        /\ best_pos.x + best_pos.width <= video.width * PosUnit
        /\ best_pos.y + best_pos.height <= video.height * PosUnit

\* The scene intervals whose mid frame the capture could read.
C24_ReadIntervals ==
    {i \in DOMAIN scene_list :
        ReadOk(video, (scene_list[i][1] + scene_list[i][2]) \div 2)}

\* C24: stage 2 samples one frame per scene interval, the frame of index
\* (start + end) div 2; an interval whose read fails is skipped and the others
\* are still sampled, so there are as many key frames as intervals that could
\* be read, in the order of the intervals.
C24_OneSamplePerInterval ==
    pc = "s2_analyze" =>
        /\ Len(key_frame_samples) = Cardinality(C24_ReadIntervals)
        /\ \A i \in C24_ReadIntervals :
             LET k == Cardinality({j \in C24_ReadIntervals : j <= i})
             IN key_frame_samples[k].frame
                    = (scene_list[i][1] + scene_list[i][2]) \div 2

C24_Witness ==
    /\ pc = "s2_analyze"
    /\ Len(scene_list) >= 2
    /\ Len(key_frame_samples) = Len(scene_list) - 1

\* The saliency term of every key frame: nothing (an empty tuple) for a frame
\* whose computeSaliency failed, the normalized map for the others.
RECURSIVE C25_SaliencyTerms(_)
C25_SaliencyTerms(frames) ==
    IF frames = <<>> THEN <<>>
    ELSE << IF Head(frames).sal = "fail" THEN <<>>
            ELSE NormalizedSaliency(Head(frames).sal, video.width, video.height) >>
         \o C25_SaliencyTerms(Tail(frames))

\* C25: a key frame whose computeSaliency reports failure adds only its face
\* rectangles to the heat map, it counts in the divisor, and the other key
\* frames are still processed.
C25_SaliencyFailureIsZero ==
    (Aggregated /\ \E i \in DOMAIN key_frame_samples : key_frame_samples[i].sal = "fail") =>
      LET n == Len(key_frame_samples)
          terms == C25_SaliencyTerms(key_frame_samples)
      IN /\ avg_heat_map.den = HeatUnit * n
         /\ \A cell \in Cells(video.width, video.height) :
              avg_heat_map.num[cell]
                = SumTo([j \in 0 .. n - 1 |->
                           FacePaint(key_frame_samples[j + 1].faces, cell)
                           + (IF key_frame_samples[j + 1].sal = "fail" THEN 0
                              ELSE terms[j + 1][cell])], n)

C25_Witness ==
    /\ Aggregated
    /\ Len(key_frame_samples) = 2
    /\ key_frame_samples[1].sal = "left"
    /\ key_frame_samples[2].sal = "fail"
    /\ key_frame_samples[2].faces # {}
    /\ \E cell \in DOMAIN avg_heat_map.num : avg_heat_map.num[cell] = salience_weight

\* C26: every cell of the aggregated heat map is the sum over the key frames
\* of the frame's heat map divided by the number of key frames, each frame
\* weighing the same, and lies between 0 and face_weight + salience_weight.
C26_FrameCountNormalizedSum ==
    (Aggregated /\ key_frame_samples # <<>>) =>
      LET n == Len(key_frame_samples)
          per == FrameHeatMaps(key_frame_samples, video.width, video.height)
      IN /\ DOMAIN avg_heat_map.num = Cells(video.width, video.height)
         /\ \A cell \in Cells(video.width, video.height) :
              /\ avg_heat_map.num[cell]
                   = SumTo([j \in 0 .. n - 1 |-> per[j + 1][cell]], n)
              /\ avg_heat_map.den = n * HeatUnit
              /\ 0 <= avg_heat_map.num[cell]
              /\ avg_heat_map.num[cell] * HeatUnit
                   <= (face_weight + salience_weight) * avg_heat_map.den

C26_Witness ==
    /\ Aggregated
    /\ Len(key_frame_samples) >= 3
    /\ \E i, j \in DOMAIN key_frame_samples :
         key_frame_samples[i].sal = "right" /\ key_frame_samples[j].sal = "left"
    /\ \E cell \in DOMAIN avg_heat_map.num :
         0 < avg_heat_map.num[cell] /\ avg_heat_map.num[cell] < avg_heat_map.den

\* The positions the selector has evaluated are 0, step, 2 * step, ... with
\* step = max(1, (width - target_width) div 10), none beyond width -
\* target_width, and the window it ends on has y = 0.
C27_HorizontalSteps ==
    LET d == video.width - TargetWidth(video.width, video.height)
    IN /\ \A i \in DOMAIN slide.evaluated :
            /\ slide.evaluated[i] = (i - 1) * Max(1, d \div 10)
            /\ slide.evaluated[i] <= d
       /\ (pc = "s2_transcode" /\ slide # NoSlide) =>
            /\ crop.y = 0
            /\ slide.evaluated # <<>>
            /\ slide.evaluated[Len(slide.evaluated)] + Max(1, d \div 10) > d

\* C27 (as stated): the selector slides horizontally from x = 0 with step
\* max(1, (width - target_width) div 10) and evaluates at most 11 positions.
C27_AtMostEleven ==
    /\ C27_HorizontalSteps
    /\ Len(slide.evaluated) <= 11

\* C27 (amended): the selector slides horizontally from x = 0 with step
\* max(1, (width - target_width) div 10) and evaluates at most 20 positions,
\* at most 11 when width - target_width is at most 10.
C27_AtMostTwenty ==
    /\ C27_HorizontalSteps
    /\ Len(slide.evaluated) <= 20
    /\ (video.width - TargetWidth(video.width, video.height) <= 10
          => Len(slide.evaluated) <= 11)

C27_Witness ==
    /\ pc = "s2_transcode"
    /\ video.width = 20
    /\ Len(slide.evaluated) = 20
    /\ crop.x > 0

\* After stage k failed, control stands at stage k + 1 or that stage has been
\* attempted, stage 2 counting as attempted when it was passed over for its
\* missing libraries.
C28_NextTried(k) ==
    \/ pc = <<"stage2", "stage3", "stage4">>[k]
    \/ k + 1 \in Range(attempted)
    \/ k = 1 /\ outcome[2] = "skipped"

\* C28: every call ends, with True or False and with nothing else: the setup
\* raising gives False, and a stage from 1 to 3 that failed, by an exception or
\* otherwise, is followed by the next stage and not by a return.
C28_AlwaysReturnsBoolean ==
    /\ [](/\ pc = "done" <=> ret \in {"True", "False"}
          /\ \A k \in 1 .. 3 : outcome[k] = "failed" => C28_NextTried(k))
    /\ <>(pc = "done")

C28_Witness ==
    /\ pc = "done"
    /\ ret = "False"
    /\ attempted = <<1, 3, 4>>
    /\ outcome[2] = "skipped"
    /\ s3_exit = "probe_raise"

\* C29: without the scene-detection libraries stage 2 opens no capture, starts
\* no VideoManager, creates no temporary directory and samples nothing; a
\* failed stage 1 is followed by the skip of stage 2 and then by stage 3.
C29_SkipWithoutSideEffects ==
    ~SCENE_DETECT_AVAILABLE =>
      /\ ~cap_open /\ ~vm_started
      /\ "scene_analysis_tmp" \notin dirs
      /\ 2 \notin Range(attempted)
      /\ outcome[2] \in {"none", "skipped"}
      /\ scene_list = <<>> /\ key_frame_samples = <<>> /\ crop = NoCrop
      /\ outcome[1] = "failed" => (pc = "stage2" \/ outcome[2] = "skipped")
      /\ outcome[2] = "skipped" =>
           /\ outcome[1] = "failed"
           /\ pc = "stage3" \/ (attempted[1] = 1 /\ attempted[2] = 3)

C29_Witness ==
    /\ ~SCENE_DETECT_AVAILABLE
    /\ outcome[1] = "failed"
    /\ outcome[2] = "skipped"
    /\ outcome[3] = "ok"
    /\ attempted = <<1, 3>>
    /\ "temp_resize" \in dirs

\* C30: stage 1 goes on to its segment loop only with a non-empty segment
\* list, to the concatenation exactly when a segment was transcoded (the
\* others are dropped), and succeeds exactly when the concatenation then
\* exits 0; in every other case it ends in failure and control stands at
\* stage 2.
C30_Stage1Success ==
    [][/\ pc' = "s1_segments" =>
            /\ pc = "stage1"
            /\ crops'.kind = "segments" /\ crops'.segments # <<>>
       /\ (pc = "stage1" /\ pc' # "s1_segments") =>
            outcome'[1] = "failed" /\ pc' = "stage2"
       /\ pc = "s1_segments" =>
            IF \E i \in DOMAIN crops.segments : crops.segments[i] = "ok"
            THEN pc' = "s1_concat" /\ outcome'[1] = "none" /\ segment_files' # <<>>
            ELSE outcome'[1] = "failed" /\ pc' = "stage2"
       /\ pc = "s1_concat" =>
            IF output_file' = [state |-> "complete", by |-> 1]
            THEN outcome'[1] = "ok" /\ pc' = "done" /\ ret' = "True"
            ELSE outcome'[1] = "failed" /\ pc' = "stage2" /\ ret' = "none"
       /\ (outcome'[1] = "ok" /\ outcome[1] # "ok") => pc = "s1_concat"]_vars

C30_Witness ==
    /\ outcome[1] = "ok"
    /\ ret = "True"
    /\ attempted = <<1>>
    /\ output_file = [state |-> "complete", by |-> 1]
    /\ written = {<<"temp_resize", Invocation>>}

\* The clips main has dealt with in the way `what`.
C31_Dealt(what) == {k \in DOMAIN log : log[k].what = what}

C31_OutOfRange(k) == clips[k] < args.min_duration \/ clips[k] > args.max_duration

\* C31: every clip is counted at most once; the clips counted as skipped are
\* those too short or too long, and none of them is extracted or resized; the
\* clips counted as successful are those whose extraction succeeded; and
\* successful_clips + skipped_clips is at most the number of clips, the two
\* being equal in the summary exactly when no extraction failed.
C31_CountedOnce ==
    /\ Len(log) <= Len(clips)
    /\ \A k \in DOMAIN log :
         /\ log[k].clip \in DOMAIN clips
         /\ \A j \in 1 .. k - 1 : log[j].clip < log[k].clip
         /\ log[k].what = "skipped" <=> C31_OutOfRange(log[k].clip)
    /\ main_pc = "resizing" => clip_i \in DOMAIN clips /\ ~C31_OutOfRange(clip_i)
    /\ skipped_clips = Cardinality(C31_Dealt("skipped"))
    /\ successful_clips = Cardinality(C31_Dealt("extracted"))
    /\ successful_clips + skipped_clips <= Len(clips)
    /\ main_pc = "end" =>
         /\ summary.successful = successful_clips
         /\ summary.skipped = skipped_clips
         /\ summary.successful + summary.skipped = summary.found
              <=> C31_Dealt("extract_failed") = {}

C31_Witness ==
    /\ main_pc = "end"
    /\ summary.skipped = 1
    /\ summary.successful = 0
    /\ summary.found = 2
    /\ C31_Dealt("extract_failed") # {}
====
